---- MODULE Spec2Model ----
(***************************************************************************)
(* Model of .builder/actions/crt_size_check.py: CrtSizeCheck.run walks     *)
(* dist/bin, dist/browser, dist/common and dist/native under the project   *)
(* root, sums the file sizes, prints the subtotals and the total, and      *)
(* raises when the total exceeds max_size.                                 *)
(***************************************************************************)
EXTENDS Integers, Sequences, FiniteSets, TLC

\* ------------------------------------------------------------------ bounds
\* Largest number of directory entries (files) present under the project root.
MaxFiles == 2

\* --------------------------------------------------------------- constants
\* line 12: max_size = 5_000_000
max_size == 5000000

\* line 21: the artifact name compared against every file of dist/bin
ArtifactName == "aws-crt-nodejs.node"

\* The four directories run() walks (lines 18, 33, 43, 53), in program order.
TrackedDirectories == <<"dist/bin", "dist/browser", "dist/common", "dist/native">>

Tracked == {TrackedDirectories[i] : i \in 1..4}

\* A directory of the project that run() never walks.
Untracked == "lib"

\* ------------------------------------------------------------- file system
\* A path is <<directory, subdirectory, file name>>; subdirectory "" is the
\* directory itself, "sub" a directory nested in it.
Names == {ArtifactName, "index.js"}

Paths == (Tracked \X {"", "sub"} \X Names) \cup ({Untracked} \X {""} \X Names)

\* Byte sizes a file may have.
Sizes == {0, 1, max_size}

VARIABLES
    present,      \* tracked directories that exist (and can be listed)
    sizes,        \* path of every file whose stat succeeds |-> its st_size
    broken,       \* directory entries whose stat raises (e.g. dangling symlinks)
    pc,           \* position of run(): idle, bin, browser, common, native, check, done
    folder_size,  \* line 14
    total_size,   \* line 16
    out,          \* lines printed by the current invocation
    raised,       \* exception that left the current invocation, or NoError
    prev          \* what the previous invocation printed and raised

vars == <<present, sizes, broken, pc, folder_size, total_size, out, raised, prev>>

fsvars == <<present, sizes, broken>>

\* ------------------------------------------------------------------ values
NoError == [type |-> "none", message |-> "", values |-> <<>>, filename |-> <<>>]

\* os.stat / os.path.getsize on an entry that cannot be stat'ed (lines 24, 27 ...)
OSError(fp) ==
    [type |-> "OSError", message |-> "stat failed", values |-> <<>>, filename |-> fp]

SizeLimitErrorCarrying ==
    [type |-> "SizeLimitExceeded", message |-> "NPM package exceeds size limit",
     values |-> <<total_size, max_size>>, filename |-> <<>>]

\* line 64: raise Exception('NPM package exceeds size limit')
SizeLimitError ==
    [type |-> "Exception", message |-> "NPM package exceeds size limit",
     values |-> <<>>, filename |-> <<>>]

\* line 24: print(f"{fp} file size: {size}")
FileReport(fp, n) == [kind |-> "file", label |-> fp, size |-> n]

\* lines 29, 39, 49, 59: print(f"<dir> files size: {folder_size} bytes")
FolderReport(d, n) == [kind |-> "folder", label |-> <<d>>, size |-> n]

\* line 62: print(f"Total NPM package file size: {total_size} bytes")
TotalReport(n) == [kind |-> "total", label |-> <<>>, size |-> n]

NoRun == [out |-> <<>>, raised |-> NoError, ran |-> FALSE]

\* ------------------------------------------------------------------ os.walk
Entries == DOMAIN sizes \cup broken

FilesIn(d, sub) == {p \in Entries : p[1] = d /\ p[2] = sub}

\* The orders in which a directory listing may return the entries of S.
Perms(S) ==
    {s \in [1..Cardinality(S) -> S] :
        \A i, j \in 1..Cardinality(S) : i # j => s[i] # s[j]}

walkTopOnly(top) ==
    IF top \notin present THEN {<<>>} ELSE Perms(FilesIn(top, ""))

\* os.walk(top) flattened by the nested for loops into the sequence of fp
\* values: top-down, the files of top before those of its subdirectory, each
\* listing in arbitrary order; a top that cannot be listed yields nothing
\* (os.walk ignores the error when no onerror is given).
walk(top) ==
    IF top \notin present
    THEN {<<>>}
    ELSE {a \o b : a \in Perms(FilesIn(top, "")), b \in Perms(FilesIn(top, "sub"))}

\* ------------------------------------------------------------ loop bodies
RECURSIVE ScanBinSkip(_, _)
ScanBinSkip(fps, st) ==
    IF fps = <<>> \/ st.raised # NoError THEN st
    ELSE LET fp == Head(fps) IN
         IF fp \in broken THEN [st EXCEPT !.raised = OSError(fp)]
         ELSE IF fp[3] = ArtifactName
         THEN ScanBinSkip(Tail(fps),
                  [st EXCEPT !.out = Append(st.out, FileReport(fp, sizes[fp]))])
         ELSE ScanBinSkip(Tail(fps),
                  [st EXCEPT !.folder_size = st.folder_size + sizes[fp]])

\* lines 19-27: the body of the dist/bin loop over the enumerated files fps
RECURSIVE ScanBin(_, _)
ScanBin(fps, st) ==
    IF fps = <<>> \/ st.raised # NoError THEN st
    ELSE LET fp == Head(fps) IN
         IF fp \in broken THEN [st EXCEPT !.raised = OSError(fp)]
         ELSE ScanBin(Tail(fps),
                  [folder_size |-> st.folder_size + sizes[fp],
                   out |-> IF fp[3] = ArtifactName
                           THEN Append(st.out, FileReport(fp, sizes[fp]))
                           ELSE st.out,
                   raised |-> NoError])

RECURSIVE ScanSwallow(_, _)
ScanSwallow(fps, st) ==
    IF fps = <<>> THEN st
    ELSE LET fp == Head(fps) IN
         IF fp \in broken THEN ScanSwallow(Tail(fps), st)
         ELSE ScanSwallow(Tail(fps),
                  [st EXCEPT !.folder_size = st.folder_size + sizes[fp]])

\* lines 35-37, 45-47, 55-57: the body of the other three loops
RECURSIVE Scan(_, _)
Scan(fps, st) ==
    IF fps = <<>> \/ st.raised # NoError THEN st
    ELSE LET fp == Head(fps) IN
         IF fp \in broken THEN [st EXCEPT !.raised = OSError(fp)]
         ELSE Scan(Tail(fps),
                  [st EXCEPT !.folder_size = st.folder_size + sizes[fp]])

\* The loop state on entry to a block.
Entry == [folder_size |-> folder_size, out |-> out, raised |-> NoError]

\* An exception leaves run(): the locals are as the loop left them.
Propagate(st) ==
    /\ pc' = "done"
    /\ raised' = st.raised
    /\ out' = st.out
    /\ folder_size' = st.folder_size
    /\ UNCHANGED <<total_size, prev, fsvars>>

ExceedsLimitGeq == total_size >= max_size

\* line 63: if total_size > max_size
ExceedsLimit == total_size > max_size

\* -------------------------------------------------------------------- Init
RECURSIVE SubsetsUpTo(_)
SubsetsUpTo(k) ==
    IF k = 0 THEN {{}}
    ELSE LET S == SubsetsUpTo(k - 1) IN
         S \cup {T \cup {p} : T \in S, p \in Paths}

Init ==
    /\ \E E \in SubsetsUpTo(MaxFiles) :
         \E B \in SUBSET E :
            /\ broken = B
            /\ sizes \in [E \ B -> Sizes]
            /\ present \in {D \in SUBSET Tracked :
                               \A p \in E : p[1] \in Tracked => p[1] \in D}
    /\ pc = "idle"
    /\ folder_size = 0
    /\ total_size = 0
    /\ out = <<>>
    /\ raised = NoError
    /\ prev = NoRun

\* ----------------------------------------------------------------- actions
runKeepCounters ==
    /\ pc \in {"idle", "done"}
    /\ prev' = IF pc = "done" THEN [out |-> out, raised |-> raised, ran |-> TRUE]
               ELSE prev
    /\ out' = <<>>
    /\ raised' = NoError
    /\ pc' = "bin"
    /\ UNCHANGED <<folder_size, total_size, fsvars>>

\* lines 10-16: an invocation of run() starts with fresh counters
run ==
    /\ pc \in {"idle", "done"}
    /\ prev' = IF pc = "done" THEN [out |-> out, raised |-> raised, ran |-> TRUE]
               ELSE prev
    /\ folder_size' = 0
    /\ total_size' = 0
    /\ out' = <<>>
    /\ raised' = NoError
    /\ pc' = "bin"
    /\ UNCHANGED fsvars

WalkBinFailFast ==
    /\ pc = "bin"
    /\ \E fps \in walk("dist/bin") :
         LET st == ScanBin(fps, Entry) IN
         IF st.raised # NoError THEN Propagate(st)
         ELSE /\ out' = Append(st.out, FolderReport("dist/bin", st.folder_size))
              /\ total_size' = total_size + st.folder_size
              /\ folder_size' = 0
              /\ IF total_size + st.folder_size > max_size
                 THEN pc' = "done" /\ raised' = SizeLimitError
                 ELSE pc' = "browser" /\ UNCHANGED raised
              /\ UNCHANGED <<prev, fsvars>>

\* lines 18-31
WalkBin ==
    /\ pc = "bin"
    /\ \E fps \in walk("dist/bin") :
         LET st == ScanBin(fps, Entry) IN
         IF st.raised # NoError THEN Propagate(st)
         ELSE /\ out' = Append(st.out, FolderReport("dist/bin", st.folder_size))
              /\ total_size' = total_size + st.folder_size
              /\ folder_size' = 0
              /\ pc' = "browser"
              /\ UNCHANGED <<raised, prev, fsvars>>

WalkBrowserStrict ==
    /\ pc = "browser"
    /\ IF "dist/browser" \notin present
       THEN Propagate([Entry EXCEPT !.raised = OSError(<<"dist/browser", "", "">>)])
       ELSE \E fps \in walk("dist/browser") :
              LET st == Scan(fps, Entry) IN
              IF st.raised # NoError THEN Propagate(st)
              ELSE /\ out' = Append(st.out, FolderReport("dist/browser", st.folder_size))
                   /\ total_size' = total_size + st.folder_size
                   /\ folder_size' = 0
                   /\ pc' = "common"
                   /\ UNCHANGED <<raised, prev, fsvars>>

WalkBrowserPasted ==
    /\ pc = "browser"
    /\ \E fps \in walk("dist/common") :
         LET st == Scan(fps, Entry) IN
         IF st.raised # NoError THEN Propagate(st)
         ELSE /\ out' = Append(st.out, FolderReport("dist/common", st.folder_size))
              /\ total_size' = total_size + st.folder_size
              /\ folder_size' = 0
              /\ pc' = "common"
              /\ UNCHANGED <<raised, prev, fsvars>>

\* lines 33-41
WalkBrowser ==
    /\ pc = "browser"
    /\ \E fps \in walk("dist/browser") :
         LET st == Scan(fps, Entry) IN
         IF st.raised # NoError THEN Propagate(st)
         ELSE /\ out' = Append(st.out, FolderReport("dist/browser", st.folder_size))
              /\ total_size' = total_size + st.folder_size
              /\ folder_size' = 0
              /\ pc' = "common"
              /\ UNCHANGED <<raised, prev, fsvars>>

WalkCommonNoReset ==
    /\ pc = "common"
    /\ \E fps \in walk("dist/common") :
         LET st == Scan(fps, Entry) IN
         IF st.raised # NoError THEN Propagate(st)
         ELSE /\ out' = Append(st.out, FolderReport("dist/common", st.folder_size))
              /\ total_size' = total_size + st.folder_size
              /\ folder_size' = st.folder_size
              /\ pc' = "native"
              /\ UNCHANGED <<raised, prev, fsvars>>

\* lines 43-51
WalkCommon ==
    /\ pc = "common"
    /\ \E fps \in walk("dist/common") :
         LET st == Scan(fps, Entry) IN
         IF st.raised # NoError THEN Propagate(st)
         ELSE /\ out' = Append(st.out, FolderReport("dist/common", st.folder_size))
              /\ total_size' = total_size + st.folder_size
              /\ folder_size' = 0
              /\ pc' = "native"
              /\ UNCHANGED <<raised, prev, fsvars>>

\* lines 53-60 (folder_size is not reset after the last block)
WalkNative ==
    /\ pc = "native"
    /\ \E fps \in walk("dist/native") :
         LET st == Scan(fps, Entry) IN
         IF st.raised # NoError THEN Propagate(st)
         ELSE /\ out' = Append(st.out, FolderReport("dist/native", st.folder_size))
              /\ total_size' = total_size + st.folder_size
              /\ folder_size' = st.folder_size
              /\ pc' = "check"
              /\ UNCHANGED <<raised, prev, fsvars>>

\* lines 62-64
Check ==
    /\ pc = "check"
    /\ out' = Append(out, TotalReport(total_size))
    /\ raised' = IF ExceedsLimit THEN SizeLimitError ELSE NoError
    /\ pc' = "done"
    /\ UNCHANGED <<folder_size, total_size, prev, fsvars>>

Next ==
    \/ run
    \/ WalkBin
    \/ WalkBrowser
    \/ WalkCommon
    \/ WalkNative
    \/ Check

Spec == Init /\ [][Next]_vars

\* ------------------------------------------------- auxiliary definitions
RECURSIVE SumSizes(_)
\* The arithmetic sum of the byte sizes of the files of S.
SumSizes(S) ==
    IF S = {} THEN 0
    ELSE LET p == CHOOSE q \in S : TRUE IN sizes[p] + SumSizes(S \ {p})

\* The files below directory d, at any depth.
DirFiles(d) == {p \in DOMAIN sizes : p[1] = d}

TrackedFiles == {p \in DOMAIN sizes : p[1] \in Tracked}

IsFile(r) == r.kind = "file"

IsFolder(r) == r.kind = "folder"

IsTotal(r) == r.kind = "total"

IsSummary(r) == r.kind \in {"folder", "total"}

Subtotals(o) == SelectSeq(o, IsFolder)

Totals(o) == SelectSeq(o, IsTotal)

RECURSIVE SumReports(_)
SumReports(rs) == IF rs = <<>> THEN 0 ELSE Head(rs).size + SumReports(Tail(rs))

TotalReported == Totals(out) # <<>>

\* The summary lines of a complete run, without their sizes.
FullOrder ==
    <<[kind |-> "folder", label |-> <<"dist/bin">>],
      [kind |-> "folder", label |-> <<"dist/browser">>],
      [kind |-> "folder", label |-> <<"dist/common">>],
      [kind |-> "folder", label |-> <<"dist/native">>],
      [kind |-> "total", label |-> <<>>]>>

Shape(rs) == [i \in 1..Len(rs) |-> [kind |-> rs[i].kind, label |-> rs[i].label]]

IsPrefix(a, b) == Len(a) <= Len(b) /\ a = SubSeq(b, 1, Len(a))

\* ------------------------------------------------------------------ claims

C2_FailsIffOverThreshold ==
    (pc = "done" /\ TotalReported) =>
        /\ (raised.type = "Exception") <=> (total_size > 5000000)
        /\ (raised = NoError) <=> (total_size <= 5000000)

C2_Witness ==
    /\ pc = "done"
    /\ TotalReported
    /\ total_size = 5000000
    /\ raised = NoError

\* C3: when every tracked directory is absent or empty the total is 0 and the
\* audit succeeds; a missing directory contributes zero bytes and raises no
\* error, and the other directories are still processed.
C3_MissingContributeZero ==
    /\ (pc = "done" /\ \A p \in Entries : p[1] \notin Tracked) =>
          /\ raised = NoError
          /\ Totals(out) = <<TotalReport(0)>>
    /\ \A i \in 1..Len(out) :
          (IsFolder(out[i]) /\ out[i].label[1] \notin present) => out[i].size = 0
    /\ raised.type = "OSError" => raised.filename \in broken
    /\ (pc = "done" /\ raised.type # "OSError") =>
          /\ Len(Subtotals(out)) = 4
          /\ \A i \in 1..4 :
                Subtotals(out)[i] =
                    FolderReport(TrackedDirectories[i],
                                 SumSizes(DirFiles(TrackedDirectories[i])))

C3_Witness ==
    /\ pc = "done"
    /\ raised = NoError
    /\ "dist/bin" \notin present
    /\ "dist/browser" \notin present
    /\ \E p \in DirFiles("dist/common") : sizes[p] > 0

\* C4: the four reported subtotals sum exactly to the reported grand total,
\* and each subtotal holds only the bytes of its own directory.
C4_SubtotalsSumToTotal ==
    /\ \A i \in 1..Len(out) :
          IsFolder(out[i]) => out[i].size = SumSizes(DirFiles(out[i].label[1]))
    /\ \A i \in 1..Len(out) :
          IsTotal(out[i]) =>
             /\ Len(Subtotals(out)) = 4
             /\ out[i].size = SumReports(Subtotals(out))

C4_Witness ==
    /\ pc = "done"
    /\ TotalReported
    /\ \E p \in DirFiles("dist/common") : sizes[p] > 0
    /\ \E p \in DirFiles("dist/native") : sizes[p] > 0

\* C5 as stated: the error raised for an oversize package carries the
\* observed grand total and the threshold.
C5_ErrorCarriesTotalAndThreshold ==
    (pc = "done" /\ raised.type \notin {"none", "OSError"}) =>
        raised.values = <<total_size, max_size>>

\* C5 as amended: the error raised for an oversize package is a plain
\* Exception with the fixed message 'NPM package exceeds size limit' and no
\* numeric payload; the observed total is only on the line printed before it.
C5_ErrorIsPlainException ==
    (pc = "done" /\ TotalReported /\ total_size > 5000000) =>
        /\ raised.type = "Exception"
        /\ raised.message = "NPM package exceeds size limit"
        /\ raised.values = <<>>
        /\ out[Len(out)] = TotalReport(total_size)

C5_Witness ==
    /\ pc = "done"
    /\ total_size > 5000000
    /\ raised.type = "Exception"

\* C6: every file named aws-crt-nodejs.node under dist/bin gets exactly one
\* per-file report, before the dist/bin subtotal, and its size is still in
\* the dist/bin subtotal and the grand total once; files of that name under
\* the other tracked directories get no per-file report.
C6_ArtifactReportedOnce ==
    /\ \A i \in 1..Len(out) :
          IsFile(out[i]) =>
             /\ out[i].label[1] = "dist/bin"
             /\ out[i].label[3] = "aws-crt-nodejs.node"
             /\ out[i].label \in DOMAIN sizes
             /\ out[i].size = sizes[out[i].label]
             /\ \A j \in 1..Len(out) :
                   /\ (IsFile(out[j]) /\ out[j].label = out[i].label) => j = i
                   /\ IsSummary(out[j]) => i < j
    /\ Subtotals(out) # <<>> =>
          /\ \A p \in DirFiles("dist/bin") :
                p[3] = "aws-crt-nodejs.node" =>
                   \E i \in 1..Len(out) : out[i] = FileReport(p, sizes[p])
          /\ Subtotals(out)[1] =
                FolderReport("dist/bin", SumSizes(DirFiles("dist/bin")))
    /\ \A i \in 1..Len(out) :
          IsTotal(out[i]) => out[i].size = SumReports(Subtotals(out))

C6_Witness ==
    /\ pc = "done"
    /\ TotalReported
    /\ \E p \in DirFiles("dist/bin") :
          /\ p[3] = "aws-crt-nodejs.node"
          /\ p[2] = "sub"
          /\ sizes[p] > 0
          /\ \E i \in 1..Len(out) : out[i] = FileReport(p, sizes[p])
    /\ \E p \in DirFiles("dist/browser") : p[3] = "aws-crt-nodejs.node"

\* C7: the directories are processed in the order bin, browser, common,
\* native: the subtotal lines appear in that order, each subtotal is printed
\* and added to the grand total before the next traversal begins, and the
\* grand total line comes after the four subtotal lines.
C7_FixedOrder ==
    /\ IsPrefix(Shape(SelectSeq(out, IsSummary)), FullOrder)
    /\ pc = "bin" => out = <<>>
    /\ pc = "browser" => Len(Subtotals(out)) = 1
    /\ pc = "common" => Len(Subtotals(out)) = 2
    /\ pc = "native" => Len(Subtotals(out)) = 3
    /\ pc = "check" => Len(Subtotals(out)) = 4
    /\ pc \in {"browser", "common", "native", "check"} =>
          /\ ~TotalReported
          /\ total_size = SumReports(Subtotals(out))
    /\ (pc = "done" /\ raised.type # "OSError") =>
          /\ Len(SelectSeq(out, IsSummary)) = 5
          /\ IsTotal(out[Len(out)])

C7_Witness ==
    /\ pc = "done"
    /\ raised = NoError
    /\ \E p \in DirFiles("dist/browser") : sizes[p] > 0
    /\ \E p \in DirFiles("dist/common") : sizes[p] > 0

\* C8: the size-limit error is raised only after all four subtotals and the
\* grand total have been printed, even when an early directory alone exceeds
\* the threshold; the grand total is printed on failing runs too.
C8_ComparisonAfterAllFour ==
    /\ raised.type = "Exception" =>
          /\ pc = "done"
          /\ Len(Subtotals(out)) = 4
          /\ out[Len(out)] = TotalReport(total_size)
    /\ pc \in {"browser", "common", "native", "check"} => raised = NoError
    /\ (pc = "done" /\ raised.type # "OSError") => TotalReported

C8_Witness ==
    /\ pc = "done"
    /\ raised.type = "Exception"
    /\ Len(Subtotals(out)) = 4
    /\ Subtotals(out)[1].size > 5000000
    /\ TotalReported

\* C9: the size-limit error is the only error run() raises itself, and only
\* when the total strictly exceeds the threshold; when reading the size of an
\* enumerated file fails the filesystem error leaves run(): no success, no
\* size-limit error, no grand total line.
C9_StatErrorPropagates ==
    /\ raised.type \in {"none", "Exception", "OSError"}
    /\ raised.type = "Exception" => total_size > 5000000
    /\ raised.type = "OSError" =>
          /\ pc = "done"
          /\ raised.filename \in broken
          /\ raised.filename[1] \in Tracked
          /\ ~TotalReported
    /\ (pc = "done" /\ \E p \in broken : p[1] \in Tracked) =>
          /\ raised.type = "OSError"
          /\ ~TotalReported

C9_Witness ==
    /\ pc = "done"
    /\ raised.type = "OSError"
    /\ raised.filename[1] = "dist/common"
    /\ Len(Subtotals(out)) = 2
    /\ total_size > 0

\* C10: run() never changes the file system, and nothing but the console
\* output survives an invocation: every invocation starts with zero
\* counters, so a second run over the same files reports the same subtotals,
\* the same grand total and the same outcome.
C10_ReadOnlyAndRepeatable ==
    /\ [][fsvars' = fsvars]_vars
    /\ [][pc' = "bin" => (folder_size' = 0 /\ total_size' = 0)]_vars
    /\ [](pc = "done" /\ prev.ran =>
             /\ Subtotals(out) = Subtotals(prev.out)
             /\ Totals(out) = Totals(prev.out)
             /\ raised.type = prev.raised.type)

C10_Witness ==
    /\ pc = "done"
    /\ prev.ran
    /\ TotalReported
    /\ total_size > 0
    /\ raised.type = prev.raised.type

====
